---- MODULE Spec2Model ----
(***************************************************************************)
(* Model of the concurrent trading core of trading_bot:                    *)
(*   RiskManager      (src/src/risk_manager.py)                            *)
(*   TradingPair      (src/src/trader.py)                                  *)
(*   MultiPairTrader  (src/src/trader.py)                                  *)
(* Money, prices, sizes and percentages are exact rationals <<n, d>>, d>0, *)
(* kept in lowest terms, so that equality of values is equality of tuples. *)
(* Python floats are modelled by these exact values: rounding of the last  *)
(* binary digit is outside the model.                                      *)
(***************************************************************************)
EXTENDS Integers, Sequences, FiniteSets, TLC

VARIABLES
    balance,              \* what ExchangeManager.get_balance() returns
    risk_params,          \* RiskManager.risk_params
    active_positions,     \* RiskManager.active_positions : symbol -> TradeRisk
    daily_pnl,            \* RiskManager.daily_pnl
    daily_trades,         \* RiskManager.daily_trades
    session_start_balance,\* RiskManager.session_start_balance
    trade_history,        \* RiskManager.trade_history
    running,              \* MultiPairTrader.running
    in_position,          \* TradingPair.in_position, per symbol
    entry_price,          \* TradingPair.entry_price, per symbol
    amount,               \* TradingPair.amount, per symbol
    pc,                   \* position of each controller thread in its cycle
    pending,              \* locals of a controller between two steps
    last_prices,          \* UltraSimpleWebSocket.last_prices
    feed,                 \* position and locals of the feed thread
    holding,              \* history: a buy was filled and no sell since, per symbol
    sells,                \* history: sell orders filled since the last buy, per symbol
    entries,              \* history: register_trade_entry calls, per symbol
    ws,                   \* UltraSimpleWebSocket: flags and position of _ws_loop
    trail,                \* position of the thread of _update_trailing_stops_loop
    stop_pc,              \* position of the caller of MultiPairTrader.stop
    daemon,               \* TradingBotDaemon: fields and positions of its threads
    call                  \* the call or step just made, its inputs and its result

rmvars == <<active_positions, daily_pnl, daily_trades, trade_history>>
envvars == <<balance, risk_params, session_start_balance>>
ctlvars == <<running, in_position, entry_price, amount, pc, pending>>
feedvars == <<last_prices, feed, ws>>
histvars == <<holding, sells>>
supvars == <<trail, stop_pc, daemon>>
vars == <<balance, risk_params, active_positions, daily_pnl, daily_trades,
          session_start_balance, trade_history, running, in_position,
          entry_price, amount, pc, pending, last_prices, feed, holding,
          sells, entries, ws, trail, stop_pc, daemon, call>>

----------------------------------------------------------------------------
(* Exact rational arithmetic                                               *)

Abs(x) == IF x < 0 THEN -x ELSE x

RECURSIVE GCD(_, _)
GCD(a, b) == IF b = 0 THEN a ELSE GCD(b, a % b)

Norm(n, d) ==
    LET s == IF d < 0 THEN -1 ELSE 1
        g == GCD(Abs(n), Abs(d))
    IN  <<(s * n) \div g, (s * d) \div g>>

I(n) == <<n, 1>>
Pct(n) == Norm(n, 100)          \* n percent
Bp(n) == Norm(n, 10000)         \* n basis points (hundredths of a percent)

RAdd(a, b) == Norm(a[1] * b[2] + b[1] * a[2], a[2] * b[2])
RSub(a, b) == Norm(a[1] * b[2] - b[1] * a[2], a[2] * b[2])
RMul(a, b) == Norm(a[1] * b[1], a[2] * b[2])
RDiv(a, b) == Norm(a[1] * b[2], a[2] * b[1])
RAbs(a) == <<Abs(a[1]), a[2]>>
RLt(a, b) == a[1] * b[2] < b[1] * a[2]
RLe(a, b) == a[1] * b[2] <= b[1] * a[2]
RGt(a, b) == RLt(b, a)
RGe(a, b) == RLe(b, a)
RMin(a, b) == IF RLe(a, b) THEN a ELSE b
RMax(a, b) == IF RGe(a, b) THEN a ELSE b
Zero == I(0)
One == I(1)

----------------------------------------------------------------------------
(* RiskParameters and the predefined profiles                              *)

RiskParameters ==
    [max_risk_per_trade      |-> Pct(1),
     max_portfolio_risk      |-> Pct(5),
     max_concurrent_trades   |-> 3,
     max_daily_loss          |-> Pct(3),
     default_stop_loss_pct   |-> Pct(2),
     default_take_profit_pct |-> Pct(4),
     trailing_stop_enabled   |-> TRUE,
     trailing_stop_distance  |-> Bp(150),
     position_size_type      |-> "risk_based",
     fixed_position_size     |-> I(50),
     balance_percentage      |-> Pct(5)]

create_risk_profile(risk_level) ==
    CASE risk_level = "conservative" ->
           [RiskParameters EXCEPT
              !.max_risk_per_trade = Bp(50),
              !.max_portfolio_risk = Pct(2),
              !.max_concurrent_trades = 2,
              !.max_daily_loss = Bp(150),
              !.default_stop_loss_pct = Bp(150),
              !.default_take_profit_pct = Pct(3),
              !.position_size_type = "risk_based",
              !.balance_percentage = Pct(3)]
      [] risk_level = "moderate" ->
           [RiskParameters EXCEPT
              !.max_risk_per_trade = Pct(1),
              !.max_portfolio_risk = Pct(5),
              !.max_concurrent_trades = 3,
              !.max_daily_loss = Pct(3),
              !.default_stop_loss_pct = Pct(2),
              !.default_take_profit_pct = Pct(4),
              !.position_size_type = "risk_based",
              !.balance_percentage = Pct(5)]
      [] risk_level = "aggressive" ->
           [RiskParameters EXCEPT
              !.max_risk_per_trade = Pct(2),
              !.max_portfolio_risk = Pct(8),
              !.max_concurrent_trades = 4,
              !.max_daily_loss = Pct(5),
              !.default_stop_loss_pct = Pct(3),
              !.default_take_profit_pct = Pct(6),
              !.position_size_type = "risk_based",
              !.balance_percentage = Pct(8)]

\* MultiPairTrader._setup_risk_manager: the profile, then the "limits"
\* section of the risk configuration laid over it.
_setup_risk_manager(risk_profile, limits) ==
    LET p == create_risk_profile(risk_profile)
        Get(k) == IF k \in DOMAIN limits THEN limits[k] ELSE p[k]
    IN  [p EXCEPT
           !.max_risk_per_trade = Get("max_risk_per_trade"),
           !.max_portfolio_risk = Get("max_portfolio_risk"),
           !.max_concurrent_trades = Get("max_concurrent_trades"),
           !.max_daily_loss = Get("max_daily_loss")]

NoLimits == [k \in {} |-> Zero]

----------------------------------------------------------------------------
(* RiskManager                                                             *)

RECURSIVE SumOver(_, _, _)
\* sum(f[x] for x in S)
SumOver(f, S, i) ==
    IF S = {} THEN Zero
    ELSE LET x == CHOOSE y \in S : TRUE
         IN  RAdd(f[x][i], SumOver(f, S \ {x}, i))

RECURSIVE SumSeq(_, _)
\* sum(t[field] for t in seq)
SumSeq(seq, field) ==
    IF seq = <<>> THEN Zero
    ELSE RAdd(Head(seq)[field], SumSeq(Tail(seq), field))

\* seq[-n:]
LastN(seq, n) ==
    IF Len(seq) <= n THEN seq ELSE SubSeq(seq, Len(seq) - n + 1, Len(seq))

SelectWins(seq) == SelectSeq(seq, LAMBDA t : RGt(t.profit, Zero))
SelectLosses(seq) == SelectSeq(seq, LAMBDA t : RLe(t.profit, Zero))

KellyWindow == 50

_calculate_kelly_position(bal, entry, stop, confidence) ==
    IF trade_history = <<>>
    THEN RDiv(RMul(bal, risk_params.max_risk_per_trade), RAbs(RSub(entry, stop)))
    ELSE
      LET recent == LastN(trade_history, KellyWindow)
          wins == SelectWins(recent)
          losses == SelectLosses(recent)
      IN  IF wins = <<>> \/ losses = <<>>
          THEN RDiv(RMul(bal, Pct(1)), entry)
          ELSE
            LET prob_win == Norm(Len(wins), Len(recent))
                avg_win_pct == RDiv(SumSeq(wins, "profit_pct"), I(Len(wins)))
                avg_loss_pct == RAbs(RDiv(SumSeq(losses, "profit_pct"), I(Len(losses))))
                b == IF RGt(avg_loss_pct, Zero)
                     THEN RDiv(avg_win_pct, avg_loss_pct) ELSE One
                kelly == RDiv(RSub(RMul(b, prob_win), RSub(One, prob_win)), b)
                kelly_fraction == RMax(Zero, RMin(Pct(25), RMul(kelly, confidence)))
            IN  RDiv(RMul(bal, kelly_fraction), entry)

MaxPositionValuePct == 10
MaxRiskValuePct == 5

\* The size before the confidence factor and the two ceilings
BasePositionSize(bal, entry, stop, confidence) ==
    LET t == risk_params.position_size_type
        risk_per_share == RAbs(RSub(entry, stop))
    IN  CASE t = "fixed_amount" -> RDiv(risk_params.fixed_position_size, entry)
          [] t = "percentage_balance" ->
               RDiv(RMul(bal, risk_params.balance_percentage), entry)
          [] t = "risk_based" ->
               RDiv(RMul(bal, risk_params.max_risk_per_trade), risk_per_share)
          [] t = "kelly_criterion" ->
               _calculate_kelly_position(bal, entry, stop, confidence)

\* calculate_position_size without the ceiling on the risk value
calculate_position_size_no_risk_ceiling(symbol, entry, stop, confidence) ==
    LET current_balance == balance
        risk_per_share == RAbs(RSub(entry, stop))
        s0 == RMul(BasePositionSize(current_balance, entry, stop, confidence), confidence)
        max_position_value == RMul(current_balance, Pct(MaxPositionValuePct))
        max_position_size == RDiv(max_position_value, entry)
        lim1 == RGt(s0, max_position_size)
        s1 == IF lim1 THEN max_position_size ELSE s0
        max_risk_value == RMul(current_balance, Pct(MaxRiskValuePct))
        lim2 == FALSE
        s2 == IF lim2 THEN RDiv(max_risk_value, risk_per_share) ELSE s1
    IN  [size |-> s2,
         limited_by |-> IF lim2 THEN "max_risk_5_percent"
                        ELSE IF lim1 THEN "max_position_value_10_percent"
                        ELSE "none"]

\* calculate_position_size taking the risk-based size before the division by
\* the stop distance for the size to cap
calculate_position_size_late_ceiling(symbol, entry, stop, confidence) ==
    LET current_balance == balance
        risk_per_share == RAbs(RSub(entry, stop))
        s0 == RMul(BasePositionSize(current_balance, entry, stop, confidence), confidence)
        max_position_value == RMul(current_balance, Pct(MaxPositionValuePct))
        max_position_size == RDiv(max_position_value, entry)
        lim1 == RGt(s0, max_position_value)
        s1 == IF lim1 THEN max_position_size ELSE s0
        max_risk_value == RMul(current_balance, Pct(MaxRiskValuePct))
        lim2 == RGt(RMul(s1, risk_per_share), max_risk_value)
        s2 == IF lim2 THEN RDiv(max_risk_value, risk_per_share) ELSE s1
    IN  [size |-> s2,
         limited_by |-> IF lim2 THEN "max_risk_5_percent"
                        ELSE IF lim1 THEN "max_position_value_10_percent"
                        ELSE "none"]

\* Returns the size and details["limited_by"] ("none" when the key is absent)
calculate_position_size(symbol, entry, stop, confidence) ==
    LET current_balance == balance
        risk_per_share == RAbs(RSub(entry, stop))
        s0 == RMul(BasePositionSize(current_balance, entry, stop, confidence), confidence)
        max_position_value == RMul(current_balance, Pct(MaxPositionValuePct))
        max_position_size == RDiv(max_position_value, entry)
        lim1 == RGt(s0, max_position_size)
        s1 == IF lim1 THEN max_position_size ELSE s0
        max_risk_value == RMul(current_balance, Pct(MaxRiskValuePct))
        lim2 == RGt(RMul(s1, risk_per_share), max_risk_value)
        s2 == IF lim2 THEN RDiv(max_risk_value, risk_per_share) ELSE s1
    IN  [size |-> s2,
         limited_by |-> IF lim2 THEN "max_risk_5_percent"
                        ELSE IF lim1 THEN "max_position_value_10_percent"
                        ELSE "none"]

calculate_stop_loss_take_profit(symbol, entry, is_long) ==
    LET sl_distance == RMul(entry, risk_params.default_stop_loss_pct)
        tp_distance == RMul(entry, risk_params.default_take_profit_pct)
    IN  [stop_loss   |-> IF is_long THEN RSub(entry, sl_distance) ELSE RAdd(entry, sl_distance),
         take_profit |-> IF is_long THEN RAdd(entry, tp_distance) ELSE RSub(entry, tp_distance)]

NoTradeRisk == [symbol |-> "none"]
BalanceReservePct == 95

\* validate_trade with the concurrent-trade cap checked before the balance
validate_trade_cap_first(symbol, entry, position_size, stop_loss) ==
    LET current_balance == balance
        position_value == RMul(position_size, entry)
        risk_amount == RMul(RAbs(RSub(entry, stop_loss)), position_size)
        risk_percentage == RDiv(risk_amount, current_balance)
        total_portfolio_risk == SumOver(active_positions, DOMAIN active_positions, "risk_amount")
        new_total_risk == RDiv(RAdd(total_portfolio_risk, risk_amount), current_balance)
        daily_loss_pct == IF RLt(daily_pnl, Zero)
                          THEN RDiv(RAbs(daily_pnl), session_start_balance) ELSE Zero
        sltp == calculate_stop_loss_take_profit(symbol, entry, TRUE)
        Reject(reason) == [ok |-> FALSE, reason |-> reason, trade_risk |-> NoTradeRisk]
    IN  IF Cardinality(DOMAIN active_positions) >= risk_params.max_concurrent_trades
          THEN Reject("max_concurrent_trades")
        ELSE IF RGt(position_value, RMul(current_balance, Pct(BalanceReservePct)))
          THEN Reject("insufficient_balance")
        ELSE IF RGt(risk_percentage, risk_params.max_risk_per_trade)
          THEN Reject("risk_per_trade")
        ELSE IF RGt(new_total_risk, risk_params.max_portfolio_risk)
          THEN Reject("portfolio_risk")
        ELSE IF RGe(daily_loss_pct, risk_params.max_daily_loss)
          THEN Reject("daily_loss")
        ELSE [ok |-> TRUE, reason |-> "approved",
              trade_risk |-> [symbol        |-> symbol,
                              entry_price   |-> entry,
                              stop_loss     |-> sltp.stop_loss,
                              take_profit   |-> sltp.take_profit,
                              position_size |-> position_size,
                              risk_amount   |-> risk_amount]]

\* The five checks of validate_trade in the order of the code
validate_trade(symbol, entry, position_size, stop_loss) ==
    LET current_balance == balance
        position_value == RMul(position_size, entry)
        risk_amount == RMul(RAbs(RSub(entry, stop_loss)), position_size)
        risk_percentage == RDiv(risk_amount, current_balance)
        total_portfolio_risk == SumOver(active_positions, DOMAIN active_positions, "risk_amount")
        new_total_risk == RDiv(RAdd(total_portfolio_risk, risk_amount), current_balance)
        daily_loss_pct == IF RLt(daily_pnl, Zero)
                          THEN RDiv(RAbs(daily_pnl), session_start_balance) ELSE Zero
        sltp == calculate_stop_loss_take_profit(symbol, entry, TRUE)
        Reject(reason) == [ok |-> FALSE, reason |-> reason, trade_risk |-> NoTradeRisk]
    IN  IF RGt(position_value, RMul(current_balance, Pct(BalanceReservePct)))
          THEN Reject("insufficient_balance")
        ELSE IF Cardinality(DOMAIN active_positions) >= risk_params.max_concurrent_trades
          THEN Reject("max_concurrent_trades")
        ELSE IF RGt(risk_percentage, risk_params.max_risk_per_trade)
          THEN Reject("risk_per_trade")
        ELSE IF RGt(new_total_risk, risk_params.max_portfolio_risk)
          THEN Reject("portfolio_risk")
        ELSE IF RGe(daily_loss_pct, risk_params.max_daily_loss)
          THEN Reject("daily_loss")
        ELSE [ok |-> TRUE, reason |-> "approved",
              trade_risk |-> [symbol        |-> symbol,
                              entry_price   |-> entry,
                              stop_loss     |-> sltp.stop_loss,
                              take_profit   |-> sltp.take_profit,
                              position_size |-> position_size,
                              risk_amount   |-> risk_amount]]

\* active_positions after register_trade_entry(trade_risk)
register_trade_entry(trade_risk) ==
    [s \in DOMAIN active_positions \cup {trade_risk.symbol} |->
        IF s = trade_risk.symbol THEN trade_risk ELSE active_positions[s]]

\* register_trade_exit that records the exit and leaves the position open
register_trade_exit_keeping_position(symbol, exit_price, profit) ==
    IF symbol \notin DOMAIN active_positions
    THEN [ap |-> active_positions, pnl |-> daily_pnl, hist |-> trade_history,
          raised |-> FALSE]
    ELSE
      LET trade_risk == active_positions[symbol]
          value == RMul(trade_risk.position_size, trade_risk.entry_price)
      IN  [ap |-> active_positions,
           pnl |-> RAdd(daily_pnl, profit),
           hist |-> Append(trade_history,
                           [symbol        |-> symbol,
                            entry_price   |-> trade_risk.entry_price,
                            exit_price    |-> exit_price,
                            position_size |-> trade_risk.position_size,
                            profit        |-> profit,
                            profit_pct    |-> RDiv(profit, value)]),
           raised |-> FALSE]

\* The RiskManager state after register_trade_exit(symbol, exit_price, profit).
\* raised: the division of line 330 failed after the position was popped.
register_trade_exit(symbol, exit_price, profit) ==
    IF symbol \notin DOMAIN active_positions
    THEN [ap |-> active_positions, pnl |-> daily_pnl, hist |-> trade_history,
          raised |-> FALSE]
    ELSE
      LET trade_risk == active_positions[symbol]
          popped == [s \in DOMAIN active_positions \ {symbol} |-> active_positions[s]]
          value == RMul(trade_risk.position_size, trade_risk.entry_price)
      IN  IF value = Zero
          THEN [ap |-> popped, pnl |-> daily_pnl, hist |-> trade_history,
                raised |-> TRUE]
          ELSE [ap |-> popped,
                pnl |-> RAdd(daily_pnl, profit),
                hist |-> Append(trade_history,
                                [symbol        |-> symbol,
                                 entry_price   |-> trade_risk.entry_price,
                                 exit_price    |-> exit_price,
                                 position_size |-> trade_risk.position_size,
                                 profit        |-> profit,
                                 profit_pct    |-> RDiv(profit, value)]),
                raised |-> FALSE]

\* TrailedStop without the comparison with the current stop
TrailedStopUnguarded(position, current_price) ==
    RSub(current_price, RMul(current_price, risk_params.trailing_stop_distance))

\* The stop a position gets from one price in update_trailing_stops
TrailedStop(position, current_price) ==
    LET trailing_distance == RMul(current_price, risk_params.trailing_stop_distance)
        new_stop == RSub(current_price, trailing_distance)
    IN  IF RGt(new_stop, position.stop_loss) THEN new_stop ELSE position.stop_loss

\* update_trailing_stops that keeps only the positions it was given a price for
update_trailing_stops_priced_only(current_prices) ==
    IF ~risk_params.trailing_stop_enabled
    THEN active_positions
    ELSE [s \in DOMAIN active_positions \cap DOMAIN current_prices |->
            [active_positions[s] EXCEPT
               !.stop_loss = TrailedStop(active_positions[s], current_prices[s])]]

\* active_positions after update_trailing_stops(current_prices)
update_trailing_stops(current_prices) ==
    IF ~risk_params.trailing_stop_enabled
    THEN active_positions
    ELSE [s \in DOMAIN active_positions |->
            IF s \notin DOMAIN current_prices
            THEN active_positions[s]
            ELSE [active_positions[s] EXCEPT
                    !.stop_loss = TrailedStop(active_positions[s], current_prices[s])]]

\* should_exit_position with exclusive boundaries
should_exit_position_exclusive(symbol, current_price) ==
    IF symbol \notin DOMAIN active_positions
    THEN [exit |-> FALSE, reason |-> "not_found"]
    ELSE LET position == active_positions[symbol]
         IN  IF RLt(current_price, position.stop_loss)
               THEN [exit |-> TRUE, reason |-> "stop_loss"]
             ELSE IF RGt(current_price, position.take_profit)
               THEN [exit |-> TRUE, reason |-> "take_profit"]
             ELSE [exit |-> FALSE, reason |-> "hold"]

should_exit_position(symbol, current_price) ==
    IF symbol \notin DOMAIN active_positions
    THEN [exit |-> FALSE, reason |-> "not_found"]
    ELSE LET position == active_positions[symbol]
         IN  IF RLe(current_price, position.stop_loss)
               THEN [exit |-> TRUE, reason |-> "stop_loss"]
             ELSE IF RGe(current_price, position.take_profit)
               THEN [exit |-> TRUE, reason |-> "take_profit"]
             ELSE [exit |-> FALSE, reason |-> "hold"]

----------------------------------------------------------------------------
(* The traded symbols and the initial state of the orchestrator            *)

Symbols == {"BTC/USDT", "ETH/USDT"}

NoPositions == [s \in {} |-> NoTradeRisk]
NoCall == [op |-> "none"]
NoPending == [op |-> "none"]
FeedIdle == [pc |-> "idle"]
WsNotStarted == [pc |-> "not_started", retry_count |-> 0,
                 running |-> FALSE, connected |-> FALSE,
                 wait |-> 0, last_wait |-> 0, callbacks |-> << >>]

\* TradingBotDaemon.__init__ and HealthMonitor.__init__; pc holds where the
\* main thread and the thread of _monitor_health are, handler where the
\* signal handler is
Threads == {"main", "monitor"}
DaemonConstructed ==
    [running |-> FALSE, trader |-> "none", reconnect_attempts |-> 0,
     restart_count |-> 0, wait_time |-> 0,
     pc |-> [t \in Threads |-> "not_started"],
     handler |-> "none"]

\* RiskManager.__init__ and TradingPair.__init__, given the balance and the
\* risk parameters the orchestrator was built with
Constructed(bal, params) ==
    /\ balance = bal
    /\ risk_params = params
    /\ active_positions = NoPositions
    /\ daily_pnl = Zero
    /\ daily_trades = 0
    /\ session_start_balance = bal
    /\ trade_history = <<>>
    /\ running = FALSE
    /\ in_position = [s \in Symbols |-> FALSE]
    /\ entry_price = [s \in Symbols |-> Zero]
    /\ amount = [s \in Symbols |-> Zero]
    /\ pc = [s \in Symbols |-> "not_started"]
    /\ pending = [s \in Symbols |-> NoPending]
    /\ last_prices = [s \in {} |-> Zero]
    /\ feed = FeedIdle
    /\ holding = [s \in Symbols |-> FALSE]
    /\ sells = [s \in Symbols |-> 0]
    /\ entries = [s \in Symbols |-> 0]
    /\ ws = WsNotStarted
    /\ trail = "not_started"
    /\ stop_pc = "idle"
    /\ daemon = DaemonConstructed
    /\ call = NoCall

----------------------------------------------------------------------------
(* SpecRisk: the RiskManager driven call by call through its public        *)
(* methods by one caller, with arguments drawn from small sets             *)

MaxTrades == 2        \* entries registered in one behaviour

Balances == {I(10000)}
EntryPrices == {I(100)}
StopPrices == {I(98), I(97), I(94)}
Sizes == {I(10), I(100)}
Profits == {I(-400), I(100)}
ExitPrices == {I(104)}
MarketPrices == {I(96), I(104), I(110)}

\* risk_config["limits"] of a deployment that tightens the portfolio budget
TightLimits == [k \in {"max_portfolio_risk"} |-> Bp(40)]

\* the two profiles, and a RiskManager built with trailing stops switched off
RiskConfigs ==
    {_setup_risk_manager("conservative", TightLimits),
     _setup_risk_manager("moderate", NoLimits),
     [_setup_risk_manager("moderate", NoLimits) EXCEPT !.trailing_stop_enabled = FALSE]}

InitRisk == \E bal \in Balances, params \in RiskConfigs : Constructed(bal, params)

OrchestratorUnchanged == UNCHANGED <<supvars, envvars, ctlvars, feedvars, histvars>>
CallerUnchanged == OrchestratorUnchanged /\ UNCHANGED entries

\* a validate_trade that records the trade it approves among the open positions
CallValidateTradeRecording(symbol, entry, size, stop) ==
    LET args == <<symbol, entry, size, stop>>
        again == call.op = "validate_trade" /\ call.args = args
        result == validate_trade(symbol, entry, size, stop)
    IN  /\ call' = [op |-> "validate_trade",
                    args |-> args,
                    result |-> result,
                    again |-> again,
                    previous |-> IF again THEN call.result ELSE result]
        /\ active_positions' = IF result.ok THEN register_trade_entry(result.trade_risk)
                               ELSE active_positions
        /\ UNCHANGED <<daily_pnl, daily_trades, trade_history>>
        /\ CallerUnchanged

\* again/previous: whether the preceding call was validate_trade with the
\* same arguments, and what that call returned
CallValidateTrade(symbol, entry, size, stop) ==
    LET args == <<symbol, entry, size, stop>>
        again == call.op = "validate_trade" /\ call.args = args
        result == validate_trade(symbol, entry, size, stop)
    IN  /\ call' = [op |-> "validate_trade",
                    args |-> args,
                    result |-> result,
                    again |-> again,
                    previous |-> IF again THEN call.result ELSE result]
        /\ UNCHANGED rmvars
        /\ CallerUnchanged

\* register_trade_entry with the TradeRisk the preceding validate_trade returned
CallRegisterTradeEntry ==
    /\ call.op = "validate_trade"
    /\ call.result.ok
    /\ daily_trades < MaxTrades
    /\ active_positions' = register_trade_entry(call.result.trade_risk)
    /\ daily_trades' = daily_trades + 1
    /\ call' = [op |-> "register_trade_entry", args |-> <<call.result.trade_risk>>]
    /\ entries' = [entries EXCEPT ![call.result.trade_risk.symbol] = @ + 1]
    /\ UNCHANGED <<daily_pnl, trade_history>>
    /\ OrchestratorUnchanged

CallRegisterTradeExit(symbol, exit_price, profit) ==
    LET r == register_trade_exit(symbol, exit_price, profit)
    IN  /\ active_positions' = r.ap
        /\ daily_pnl' = r.pnl
        /\ trade_history' = r.hist
        /\ call' = [op |-> "register_trade_exit",
                    args |-> <<symbol, exit_price, profit>>,
                    raised |-> r.raised]
        /\ UNCHANGED daily_trades
        /\ CallerUnchanged

CallUpdateTrailingStops(current_prices) ==
    /\ active_positions' = update_trailing_stops(current_prices)
    /\ call' = [op |-> "update_trailing_stops", args |-> <<current_prices>>]
    /\ UNCHANGED <<daily_pnl, daily_trades, trade_history>>
    /\ CallerUnchanged

CallShouldExitPosition(symbol, price) ==
    /\ call' = [op |-> "should_exit_position",
                args |-> <<symbol, price>>,
                result |-> should_exit_position(symbol, price)]
    /\ UNCHANGED rmvars
    /\ CallerUnchanged

\* The stop and the target of the open positions: the prices at which
\* should_exit_position changes its answer
Thresholds ==
    {active_positions[s].stop_loss : s \in DOMAIN active_positions}
    \cup {active_positions[s].take_profit : s \in DOMAIN active_positions}

PriceMaps ==
    UNION {[D -> MarketPrices] : D \in SUBSET Symbols}

NextRisk ==
    \/ \E s \in Symbols, e \in EntryPrices, z \in Sizes, st \in StopPrices :
          CallValidateTrade(s, e, z, st)
    \/ CallRegisterTradeEntry
    \/ \E s \in Symbols, x \in ExitPrices, p \in Profits :
          CallRegisterTradeExit(s, x, p)
    \/ \E m \in PriceMaps : CallUpdateTrailingStops(m)
    \/ \E s \in Symbols, p \in MarketPrices \cup Thresholds :
          CallShouldExitPosition(s, p)

SpecRisk == InitRisk /\ [][NextRisk]_vars

----------------------------------------------------------------------------
(* SpecSizing: calculate_position_size applied to prices, stops and        *)
(* confidences drawn from small sets, under each sizing method, on the     *)
(* trade histories that entries and exits build                            *)

SizingSymbols == {"BTC/USDT"}
SizingBalances == {I(10000), I(2000)}
SizingEntryPrices == {I(100), I(40)}
SizingStopPrices == {I(98), I(97), I(30)}
Confidences == {Zero, <<1, 2>>, One}
SizingProfits == {I(-100), I(400)}
\* sizes of the entries: 0 is what calculate_position_size returns at confidence 0
EnteredSizes == {I(10), Zero}
EnteredStops == {I(98)}

\* a deployment whose limits let the per-trade risk exceed the 5% ceiling
WideLimits == [k \in {"max_risk_per_trade"} |-> Pct(6)]

SizingConfigs ==
    {_setup_risk_manager("moderate", NoLimits),
     _setup_risk_manager("moderate", WideLimits)}
    \cup {[RiskParameters EXCEPT !.position_size_type = t] :
            t \in {"fixed_amount", "percentage_balance", "kelly_criterion"}}

InitSizing == \E bal \in SizingBalances, params \in SizingConfigs : Constructed(bal, params)

CallCalculatePositionSize(symbol, entry, stop, confidence) ==
    /\ call' = [op |-> "calculate_position_size",
                args |-> <<symbol, entry, stop, confidence>>,
                result |-> calculate_position_size(symbol, entry, stop, confidence)]
    /\ UNCHANGED rmvars
    /\ CallerUnchanged

NextSizing ==
    \/ \E s \in SizingSymbols, e \in EntryPrices, z \in EnteredSizes, st \in EnteredStops :
          CallValidateTrade(s, e, z, st)
    \/ CallRegisterTradeEntry
    \/ \E s \in SizingSymbols, x \in ExitPrices, p \in SizingProfits :
          CallRegisterTradeExit(s, x, p)
    \/ \E s \in SizingSymbols, e \in SizingEntryPrices, st \in SizingStopPrices,
          c \in Confidences :
          CallCalculatePositionSize(s, e, st, c)

SpecSizing == InitSizing /\ [][NextSizing]_vars

----------------------------------------------------------------------------
(* Spec: the orchestrator.  One controller thread per symbol runs           *)
(* MultiPairTrader._run_trading_pair, the feed thread runs                  *)
(* UltraSimpleWebSocket._ws_loop and delivers tickers to                    *)
(* TradingPair.on_price_update, one thread runs _update_trailing_stops_loop.*)
(* The threads share the RiskManager and the TradingPair objects without a  *)
(* lock; a step of a thread is the code between two exchange calls, and     *)
(* `self.daily_pnl += profit` is a read and a later write.                  *)
(* In Spec the stream connects and stays up; SpecFeed has the failures.     *)

MaxEntries == 2       \* buy orders the exchange fills in one behaviour
MaxSells == 3         \* sell orders the exchange fills for one entry

CandlePrices == {I(100)}            \* close of the last candle the strategy sees
TickPrices == {I(96), I(104)}       \* prices the ticker stream delivers
\* what ExchangeManager.fetch_ohlcv returns: None, no rows, or candles
FetchResults == {"none", "empty", "candles"}
\* risk_config["limits"] of a deployment that trades one position at a time
SingleSlotLimits == [k \in {"max_concurrent_trades"} |-> 1]
\* one position at a time, within the tightened portfolio budget
SpecConfigs ==
    {_setup_risk_manager("conservative", SingleSlotLimits @@ TightLimits)}

SuggestedStopPct == 97
max_retries == 3

Init == \E bal \in Balances, params \in SpecConfigs : Constructed(bal, params)

\* The while condition of _ws_loop and, when it holds, the count of line 95
WsLoopTop(w) ==
    IF w.running /\ w.retry_count < max_retries
    THEN [w EXCEPT !.pc = "connect", !.retry_count = @ + 1]
    ELSE [w EXCEPT !.pc = "ended"]

\* The handler of line 128: connected is cleared and, while attempts are
\* left, the thread sleeps ReconnectWait seconds.  wait is the sleep of the
\* last failure and last_wait that of the failure before it, both 0 after
\* a connection
ReconnectWait == 10

WsFailed(w) ==
    LET x == [w EXCEPT !.connected = FALSE]
    IN  IF x.retry_count < max_retries
        THEN [x EXCEPT !.pc = "sleep", !.last_wait = x.wait, !.wait = ReconnectWait]
        ELSE WsLoopTop(x)

\* The bound method pair.on_price_update that start() registers for a pair,
\* and two more callbacks a caller may register: one returns, one raises
on_price_update(s) == [fn |-> "on_price_update", pair |-> s, raises |-> FALSE]
OtherCallbacks == {[fn |-> "observer", pair |-> "none", raises |-> FALSE],
                   [fn |-> "faulty", pair |-> "none", raises |-> TRUE]}

\* MultiPairTrader.start: the flag, start_monitoring and the threads
trader_start ==
    /\ ~running
    /\ \A s \in Symbols : pc[s] = "not_started"
    /\ ws.pc = "not_started"
    /\ running' = TRUE
    /\ pc' = [s \in Symbols |-> "idle"]
    /\ ws' = WsLoopTop([ws EXCEPT !.running = TRUE,
                                  !.callbacks = [s \in Symbols |-> <<on_price_update(s)>>]])
    /\ trail' = "loop"
    /\ UNCHANGED <<stop_pc, envvars, rmvars, in_position, entry_price, amount,
                   pending, last_prices, feed, histvars, entries>>

Start == trader_start /\ UNCHANGED daemon

\* MultiPairTrader.stop up to its joins: the flags are cleared; the threads
\* see them at the top of their loops
trader_stop ==
    /\ running' = FALSE
    /\ ws' = [ws EXCEPT !.running = FALSE]
    /\ stop_pc' = "joining"
    /\ UNCHANGED <<trail, envvars, rmvars, in_position, entry_price, amount, pc,
                   pending, last_prices, feed, histvars, entries>>

Stop == running /\ trader_stop /\ UNCHANGED daemon

\* The threads MultiPairTrader.stop joins, lines 506-507, are over.  The join
\* of the feed thread in stop_monitoring gives up after its timeout, so it
\* does not hold the caller
ThreadsJoined ==
    /\ \A s \in Symbols : pc[s] \in {"not_started", "done"}
    /\ trail \in {"not_started", "done"}

\* MultiPairTrader.stop returns
StopReturn ==
    /\ stop_pc = "joining"
    /\ ThreadsJoined
    /\ stop_pc' = "returned"
    /\ UNCHANGED <<trail, daemon, envvars, rmvars, ctlvars, feedvars, histvars,
                   entries>>

\* The loop condition of _update_trailing_stops_loop read as false
TrailExit ==
    /\ trail = "loop"
    /\ ~running
    /\ trail' = "done"
    /\ UNCHANGED <<stop_pc, daemon, envvars, rmvars, ctlvars, feedvars, histvars,
                   entries>>

\* The loop condition of _run_trading_pair read as false
ControllerExit(s) ==
    /\ pc[s] = "idle"
    /\ ~running
    /\ pc' = [pc EXCEPT ![s] = "done"]
    /\ UNCHANGED <<supvars, envvars, rmvars, running, in_position, entry_price, amount,
                   pending, feedvars, histvars, entries>>

\* get_risk_summary()["daily_pnl_pct"] compared with max_daily_loss
DailyLossPause ==
    LET daily_pnl_pct == IF RGt(session_start_balance, Zero)
                         THEN RDiv(daily_pnl, session_start_balance) ELSE Zero
    IN  RGe(RAbs(daily_pnl_pct), risk_params.max_daily_loss)

\* a thread that leaves its loop when an exception reaches the handler
AfterExceptionLeavesLoop == "done"

\* Where a controller thread is after `except Exception` and its sleep:
\* at the top of the loop
AfterException == "idle"

\* _execute_buy_with_risk_check that submits the order whatever validate_trade says
_execute_buy_ignoring_rejection(s, current_price) ==
    LET suggested_stop_loss == RMul(current_price, Pct(SuggestedStopPct))
        sized == calculate_position_size(s, current_price, suggested_stop_loss, One)
        v == validate_trade(s, current_price, sized.size, suggested_stop_loss)
    IN  [outcome |-> IF v.ok THEN "buy" ELSE "rejected",
         pc      |-> "buy",
         pending |-> [op |-> "buy", price |-> current_price,
                      position_size |-> sized.size,
                      trade_risk |-> [symbol        |-> s,
                                      entry_price   |-> current_price,
                                      stop_loss     |-> suggested_stop_loss,
                                      take_profit   |-> current_price,
                                      position_size |-> sized.size,
                                      risk_amount   |-> Zero]]]

\* _execute_buy_with_risk_check up to the order: sizing, validation and the
\* early return on a rejected trade
_execute_buy_with_risk_check(s, current_price) ==
    LET suggested_stop_loss == RMul(current_price, Pct(SuggestedStopPct))
        sized == calculate_position_size(s, current_price, suggested_stop_loss, One)
        v == validate_trade(s, current_price, sized.size, suggested_stop_loss)
    IN  IF v.ok
        THEN [outcome |-> "buy",
              pc      |-> "buy",
              pending |-> [op |-> "buy", price |-> current_price,
                           position_size |-> sized.size,
                           trade_risk |-> v.trade_risk]]
        ELSE [outcome |-> "rejected", pc |-> "idle", pending |-> NoPending]

\* execute_strategy up to the first order, for the signals the strategy gave
execute_strategy(s, should_buy, should_sell, current_price) ==
    IF ~in_position[s] /\ should_buy
      THEN _execute_buy_with_risk_check(s, current_price)
    ELSE IF in_position[s] /\ should_sell
      THEN [outcome |-> "sell",
            pc      |-> "sell",
            pending |-> [op |-> "sell", price |-> current_price]]
    ELSE [outcome |-> "hold", pc |-> "idle", pending |-> NoPending]

\* a loop body that hands the strategy whatever update_market_data returned
_run_trading_pair_without_skip(s, data, should_buy, should_sell, current_price) ==
    IF DailyLossPause
      THEN [outcome |-> "paused", pc |-> "idle", pending |-> NoPending]
    ELSE IF data = "empty"
      THEN [outcome |-> "raised", pc |-> AfterException, pending |-> NoPending]
    ELSE execute_strategy(s, should_buy, should_sell, current_price)

\* One pass of the loop body of _run_trading_pair up to the first order:
\* the daily-loss pause, update_market_data (None skips the cycle, a frame
\* without rows raises IndexError at trader.py line 139) and execute_strategy
_run_trading_pair(s, data, should_buy, should_sell, current_price) ==
    IF DailyLossPause
      THEN [outcome |-> "paused", pc |-> "idle", pending |-> NoPending]
    ELSE IF data = "none"
      THEN [outcome |-> "no_data", pc |-> "idle", pending |-> NoPending]
    ELSE IF data = "empty"
      THEN [outcome |-> "raised", pc |-> AfterException, pending |-> NoPending]
    ELSE execute_strategy(s, should_buy, should_sell, current_price)

\* What a cycle leaves in call: data is what the fetch returned (not_fetched
\* when the pause came first); exit_due says that execute_strategy ran while
\* in position at a price for which should_exit_position is true
CycleCall(s, data, outcome, current_price) ==
    [op       |-> "cycle",
     symbol   |-> s,
     data     |-> IF outcome = "paused" THEN "not_fetched" ELSE data,
     outcome  |-> outcome,
     exit_due |-> /\ outcome \in {"hold", "sell"}
                  /\ in_position[s]
                  /\ should_exit_position(s, current_price).exit]

\* A pass of the loop body that ends as r says: at an order or back at the
\* top of the loop
Pass(s, r) ==
    /\ pc[s] = "idle"
    /\ running
    /\ pc' = [pc EXCEPT ![s] = r.pc]
    /\ pending' = [pending EXCEPT ![s] = r.pending]
    /\ UNCHANGED <<supvars, envvars, rmvars, running, in_position, entry_price, amount,
                   feedvars, histvars, entries>>

\* data, should_buy, should_sell and current_price are what the exchange
\* and the strategy return.
Cycle(s, data, should_buy, should_sell, current_price) ==
    /\ pc[s] = "idle"
    /\ \E r \in {_run_trading_pair(s, data, should_buy, should_sell, current_price)} :
          Pass(s, r)

\* The signals a strategy can give on what the fetch returned: it is only
\* invoked on candles
Signals(data) == IF data = "candles" THEN BOOLEAN ELSE {FALSE}

\* What the gateway returns for a market order: None, or an order and its
\* "price"; the simulation gateway returns "price": 0
NoOrder == [filled |-> FALSE]
Order(price) == [filled |-> TRUE, price |-> price]
SimulationOrder == Order(Zero)

\* create_market_buy_order returned order; entry_price is
\* float(order["price"]); then lines 260-267
BuyOrderAt(s, order) ==
    /\ pc[s] = "buy"
    /\ order.filled => daily_trades < MaxEntries
    /\ pc' = [pc EXCEPT ![s] = "idle"]
    /\ pending' = [pending EXCEPT ![s] = NoPending]
    /\ IF order.filled
       THEN /\ in_position' = [in_position EXCEPT ![s] = TRUE]
            /\ entry_price' = [entry_price EXCEPT ![s] = order.price]
            /\ amount' = [amount EXCEPT ![s] = pending[s].position_size]
            /\ active_positions' = register_trade_entry(pending[s].trade_risk)
            /\ daily_trades' = daily_trades + 1
            /\ holding' = [holding EXCEPT ![s] = TRUE]
            /\ sells' = [sells EXCEPT ![s] = 0]
            /\ entries' = [entries EXCEPT ![s] = @ + 1]
       ELSE UNCHANGED <<in_position, entry_price, amount, active_positions,
                        daily_trades, histvars, entries>>
    /\ UNCHANGED <<supvars, envvars, daily_pnl, trade_history, running, feedvars>>

\* create_market_buy_order returned to the controller thread: no order, or
\* an order filled at the price the pass decided on
BuyOrder(s, filled) ==
    BuyOrderAt(s, IF filled THEN Order(pending[s].price) ELSE NoOrder)

\* a sell that is submitted again when the exchange returned no order
SellOrderRetrying(s, order) ==
    /\ pc[s] = "sell"
    /\ order.filled => sells[s] < MaxSells
    /\ IF order.filled
       THEN /\ pc' = [pc EXCEPT ![s] = "sold"]
            /\ holding' = [holding EXCEPT ![s] = FALSE]
            /\ sells' = [sells EXCEPT ![s] = @ + 1]
            /\ pending' = [pending EXCEPT ![s].price = order.price]
       ELSE UNCHANGED <<pc, pending, histvars>>
    /\ UNCHANGED <<supvars, envvars, rmvars, running, in_position, entry_price, amount,
                   feedvars, entries>>

\* create_market_sell_order returned to the controller thread; exit_price is
\* float(order["price"]) (trader.py line 329)
SellOrderAt(s, order) ==
    /\ pc[s] = "sell"
    /\ order.filled => sells[s] < MaxSells
    /\ IF order.filled
       THEN /\ pc' = [pc EXCEPT ![s] = "sold"]
            /\ holding' = [holding EXCEPT ![s] = FALSE]
            /\ sells' = [sells EXCEPT ![s] = @ + 1]
            /\ pending' = [pending EXCEPT ![s].price = order.price]
       ELSE /\ pc' = [pc EXCEPT ![s] = "idle"]
            /\ pending' = [pending EXCEPT ![s] = NoPending]
            /\ UNCHANGED histvars
    /\ UNCHANGED <<supvars, envvars, rmvars, running, in_position, entry_price, amount,
                   feedvars, entries>>

\* create_market_sell_order returned to the controller thread: no order, or
\* an order filled at the price the pass decided on
SellOrder(s, filled) ==
    SellOrderAt(s, IF filled THEN Order(pending[s].price) ELSE NoOrder)

\* _execute_sell after a filled order, lines 329-331 of trader.py, and the
\* membership test of register_trade_exit (risk_manager.py line 326), in the
\* thread that sold s: "raised" for the division by an entry price of zero,
\* "absent" when register_trade_exit returns at line 327, else "present"
ExitCheck(s) ==
    IF entry_price[s] = Zero THEN "raised"
    ELSE IF s \notin DOMAIN active_positions THEN "absent"
    ELSE "present"

\* register_trade_exit from the pop of line 329 up to the read of daily_pnl
\* in `self.daily_pnl += profit` (line 333).  raised: KeyError, when another
\* thread popped the position after the membership test, or the division
\* of line 330.
ExitPop(s, exit_price) ==
    LET profit_usdt == RMul(RSub(exit_price, entry_price[s]), amount[s])
        r == register_trade_exit(s, exit_price, profit_usdt)
    IN  IF s \notin DOMAIN active_positions
          THEN [kind |-> "raised", ap |-> active_positions]
        ELSE IF r.raised
          THEN [kind |-> "raised", ap |-> r.ap]
        ELSE [kind |-> "popped", ap |-> r.ap,
              record |-> r.hist[Len(r.hist)], pnl_read |-> daily_pnl]

\* The controller thread after its sell order was filled
Sold(s) ==
    /\ pc[s] = "sold"
    /\ \E x \in {ExitCheck(s)} :
          IF x = "raised"
            THEN /\ pc' = [pc EXCEPT ![s] = AfterException]
                 /\ pending' = [pending EXCEPT ![s] = NoPending]
                 /\ UNCHANGED in_position
          ELSE IF x = "absent"
            THEN /\ pc' = [pc EXCEPT ![s] = "idle"]
                 /\ pending' = [pending EXCEPT ![s] = NoPending]
                 /\ in_position' = [in_position EXCEPT ![s] = FALSE]
          ELSE /\ pc' = [pc EXCEPT ![s] = "pop"]
               /\ UNCHANGED <<pending, in_position>>
    /\ UNCHANGED <<supvars, envvars, rmvars, running, entry_price, amount, feedvars,
                   histvars, entries>>

\* The controller thread pops the position and reads daily_pnl
Popped(s) ==
    /\ pc[s] = "pop"
    /\ \E x \in {ExitPop(s, pending[s].price)} :
          /\ active_positions' = x.ap
          /\ IF x.kind = "raised"
             THEN /\ pc' = [pc EXCEPT ![s] = AfterException]
                  /\ pending' = [pending EXCEPT ![s] = NoPending]
             ELSE /\ pc' = [pc EXCEPT ![s] = "book"]
                  /\ pending' = [pending EXCEPT ![s] =
                                   [op |-> "book", record |-> x.record,
                                    pnl_read |-> x.pnl_read]]
    /\ UNCHANGED <<supvars, envvars, daily_pnl, daily_trades, trade_history, running,
                   in_position, entry_price, amount, feedvars, histvars, entries>>

\* The controller thread stores daily_pnl, appends the record (lines 333-346
\* of risk_manager.py) and clears in_position (line 338 of trader.py)
Booked(s) ==
    /\ pc[s] = "book"
    /\ daily_pnl' = RAdd(pending[s].pnl_read, pending[s].record.profit)
    /\ trade_history' = Append(trade_history, pending[s].record)
    /\ in_position' = [in_position EXCEPT ![s] = FALSE]
    /\ pc' = [pc EXCEPT ![s] = "idle"]
    /\ pending' = [pending EXCEPT ![s] = NoPending]
    /\ UNCHANGED <<supvars, envvars, active_positions, daily_trades, running, entry_price,
                   amount, feedvars, histvars, entries>>

\* websockets.connect returned (ok) or raised, lines 112-133
WsConnect(ok) ==
    /\ ws.pc = "connect"
    /\ ws' = IF ok
             THEN [ws EXCEPT !.pc = "streaming", !.connected = TRUE, !.retry_count = 0,
                             !.wait = 0, !.last_wait = 0]
             ELSE WsFailed(ws)
    /\ UNCHANGED <<supvars, envvars, rmvars, ctlvars, last_prices, feed, histvars, entries>>

\* The sleep of line 133 is over
WsWake ==
    /\ ws.pc = "sleep"
    /\ ws' = WsLoopTop(ws)
    /\ UNCHANGED <<supvars, envvars, rmvars, ctlvars, last_prices, feed, histvars, entries>>

\* The stream ends: closed by the server (clean: `async for` just finishes)
\* or broken (the iteration raises and the handler of line 128 runs)
WsDrop(clean) ==
    /\ ws.pc = "streaming"
    /\ feed.pc = "idle"
    /\ ws' = IF clean THEN WsLoopTop(ws) ELSE WsFailed(ws)
    /\ UNCHANGED <<supvars, envvars, rmvars, ctlvars, last_prices, feed, histvars, entries>>

\* A message arrives after stop_monitoring: the break of line 120
WsBreak ==
    /\ ws.pc = "streaming"
    /\ feed.pc = "idle"
    /\ ~ws.running
    /\ ws' = WsLoopTop(ws)
    /\ UNCHANGED <<supvars, envvars, rmvars, ctlvars, last_prices, feed, histvars, entries>>

\* a callback that looks at the position only while the controller's cycle
\* is between two passes
TickerBetweenCycles(s, price) ==
    /\ ws.pc = "streaming"
    /\ ws.running
    /\ feed.pc = "idle"
    /\ last_prices' = [x \in DOMAIN last_prices \cup {s} |->
                          IF x = s THEN price ELSE last_prices[x]]
    /\ feed' = IF pc[s] = "idle" /\ in_position[s] /\ should_exit_position(s, price).exit
               THEN [pc |-> "sell", symbol |-> s, price |-> price]
               ELSE FeedIdle
    /\ UNCHANGED <<supvars, envvars, rmvars, ctlvars, ws, histvars, entries>>

\* A ticker message: _process_ticker caches the price and calls
\* on_price_update, which asks should_exit_position when in position
Ticker(s, price) ==
    /\ ws.pc = "streaming"
    /\ ws.running
    /\ feed.pc = "idle"
    /\ last_prices' = [x \in DOMAIN last_prices \cup {s} |->
                          IF x = s THEN price ELSE last_prices[x]]
    /\ feed' = IF in_position[s] /\ should_exit_position(s, price).exit
               THEN [pc |-> "sell", symbol |-> s, price |-> price]
               ELSE FeedIdle
    /\ UNCHANGED <<supvars, envvars, rmvars, ctlvars, ws, histvars, entries>>

\* create_market_sell_order returned to the feed thread
FeedSellOrder(filled) ==
    /\ feed.pc = "sell"
    /\ IF filled
       THEN /\ feed' = [feed EXCEPT !.pc = "sold"]
            /\ holding' = [holding EXCEPT ![feed.symbol] = FALSE]
            /\ sells' = [sells EXCEPT ![feed.symbol] = @ + 1]
       ELSE /\ feed' = FeedIdle
            /\ UNCHANGED histvars
    /\ UNCHANGED <<supvars, envvars, rmvars, ctlvars, last_prices, ws, entries>>

\* The feed thread after its sell order was filled.  An exception here is
\* caught around the callback (ultra_simple_websocket.py line 174).
FeedSold ==
    /\ feed.pc = "sold"
    /\ \E x \in {ExitCheck(feed.symbol)} :
          IF x = "raised"
            THEN /\ feed' = FeedIdle
                 /\ UNCHANGED in_position
          ELSE IF x = "absent"
            THEN /\ feed' = FeedIdle
                 /\ in_position' = [in_position EXCEPT ![feed.symbol] = FALSE]
          ELSE /\ feed' = [feed EXCEPT !.pc = "pop"]
               /\ UNCHANGED in_position
    /\ UNCHANGED <<supvars, envvars, rmvars, running, entry_price, amount, pc, pending,
                   last_prices, ws, histvars, entries>>

FeedPopped ==
    /\ feed.pc = "pop"
    /\ \E x \in {ExitPop(feed.symbol, feed.price)} :
          /\ active_positions' = x.ap
          /\ feed' = IF x.kind = "raised"
                     THEN FeedIdle
                     ELSE [pc |-> "book", symbol |-> feed.symbol, price |-> feed.price,
                           record |-> x.record, pnl_read |-> x.pnl_read]
    /\ UNCHANGED <<supvars, envvars, daily_pnl, daily_trades, trade_history, ctlvars,
                   last_prices, ws, histvars, entries>>

FeedBooked ==
    /\ feed.pc = "book"
    /\ daily_pnl' = RAdd(feed.pnl_read, feed.record.profit)
    /\ trade_history' = Append(trade_history, feed.record)
    /\ in_position' = [in_position EXCEPT ![feed.symbol] = FALSE]
    /\ feed' = FeedIdle
    /\ UNCHANGED <<supvars, envvars, active_positions, daily_trades, running, entry_price,
                   amount, pc, pending, last_prices, ws, histvars, entries>>

\* One pass of _update_trailing_stops_loop
TrailingStops ==
    /\ running
    /\ trail = "loop"
    /\ DOMAIN last_prices # {}
    /\ active_positions' = update_trailing_stops(last_prices)
    /\ UNCHANGED <<supvars, envvars, daily_pnl, daily_trades, trade_history, ctlvars,
                   feedvars, histvars, entries>>

\* The orchestrator on a network where the stream connects and stays up
Next ==
    \/ Start /\ UNCHANGED call
    \/ Stop /\ UNCHANGED call
    \/ \E s \in Symbols : ControllerExit(s) /\ UNCHANGED call
    \/ \E s \in Symbols, d \in FetchResults, p \in CandlePrices :
          \E b, l \in Signals(d) : Cycle(s, d, b, l, p) /\ UNCHANGED call
    \/ \E s \in Symbols, f \in BOOLEAN : BuyOrder(s, f) /\ UNCHANGED call
    \/ \E s \in Symbols, f \in BOOLEAN : SellOrder(s, f) /\ UNCHANGED call
    \/ \E s \in Symbols : Sold(s) /\ UNCHANGED call
    \/ \E s \in Symbols : Popped(s) /\ UNCHANGED call
    \/ \E s \in Symbols : Booked(s) /\ UNCHANGED call
    \/ WsConnect(TRUE) /\ UNCHANGED call
    \/ \E s \in Symbols, p \in TickPrices : Ticker(s, p) /\ UNCHANGED call
    \/ \E f \in BOOLEAN : FeedSellOrder(f) /\ UNCHANGED call
    \/ FeedSold /\ UNCHANGED call
    \/ FeedPopped /\ UNCHANGED call
    \/ FeedBooked /\ UNCHANGED call
    \/ TrailingStops /\ UNCHANGED call

Spec == Init /\ [][Next]_vars

----------------------------------------------------------------------------
(* SpecFeed: the feed thread of UltraSimpleWebSocket on a network where      *)
(* connection attempts fail and streams drop, delivering tickers to the     *)
(* callbacks of controllers that hold no position                           *)

MaxCallbacks == 3     \* callbacks registered for one symbol

\* add_price_callback(symbol, callback), lines 30-34: appended to the list
\* of the symbol, which is created when the symbol has none
add_price_callback(symbol, callback) ==
    /\ ws.pc # "not_started"
    /\ symbol \in DOMAIN ws.callbacks => Len(ws.callbacks[symbol]) < MaxCallbacks
    /\ ws' = [ws EXCEPT !.callbacks =
                 [x \in DOMAIN ws.callbacks \cup {symbol} |->
                     IF x # symbol THEN ws.callbacks[x]
                     ELSE IF symbol \in DOMAIN ws.callbacks
                          THEN Append(ws.callbacks[symbol], callback)
                          ELSE <<callback>>]]
    /\ UNCHANGED <<supvars, envvars, rmvars, ctlvars, last_prices, feed, histvars, entries>>

\* stop_monitoring, lines 47-51: the flag is cleared; the join waits for the
\* thread for 5 seconds at most
stop_monitoring ==
    /\ ws.pc # "not_started"
    /\ ws.running
    /\ ws' = [ws EXCEPT !.running = FALSE]
    /\ UNCHANGED <<supvars, envvars, rmvars, ctlvars, last_prices, feed, histvars, entries>>

\* start_monitoring that resumes the count of the thread that ended
start_monitoring_resuming ==
    /\ ws.pc = "ended"
    /\ ~ws.running
    /\ ws' = WsLoopTop([ws EXCEPT !.running = TRUE])
    /\ UNCHANGED <<supvars, envvars, rmvars, ctlvars, last_prices, feed, histvars, entries>>

\* start_monitoring, lines 36-45, called when the previous thread is over:
\* it returns at once while running is set; else a new thread runs _ws_loop,
\* whose retry_count starts at 0
start_monitoring ==
    /\ ws.pc = "ended"
    /\ ~ws.running
    /\ ws' = WsLoopTop([ws EXCEPT !.running = TRUE, !.retry_count = 0])
    /\ UNCHANGED <<supvars, envvars, rmvars, ctlvars, last_prices, feed, histvars, entries>>

\* The messages of the stream: a ticker of one of the symbols, text that is
\* not JSON, JSON without "s" or "c", a "c" that is not a number, a symbol
\* that is not quoted in USDT
Messages ==
    {[kind |-> "ticker", s |-> s, c |-> p] : s \in Symbols, p \in TickPrices}
    \cup {[kind |-> k] : k \in {"unparseable", "no_fields", "bad_price", "not_usdt"}}

\* a receive loop without the try of line 122: what json.loads raises
\* reaches the handler of line 128
_process_message_unguarded(m) ==
    CASE m.kind = "unparseable" -> "escaped"
      [] m.kind = "bad_price" -> "caught_in_process_ticker"
      [] m.kind \in {"no_fields", "not_usdt"} -> "skipped"
      [] m.kind = "ticker" -> "delivered"

\* Lines 122-126 and _process_message, _process_ticker: json.loads raises
\* into the handler of line 125, float(data["c"]) into that of line 177,
\* the tests of lines 153 and 159 skip the message
_process_message(m) ==
    CASE m.kind = "unparseable" -> "caught_in_loop"
      [] m.kind = "bad_price" -> "caught_in_process_ticker"
      [] m.kind \in {"no_fields", "not_usdt"} -> "skipped"
      [] m.kind = "ticker" -> "delivered"

\* One message received by `async for`
Message(m) ==
    \E r \in {_process_message(m)} :
       IF r = "delivered"
       THEN Ticker(m.s, m.c)
       ELSE /\ ws.pc = "streaming"
            /\ ws.running
            /\ feed.pc = "idle"
            /\ ws' = IF r = "escaped" THEN WsFailed(ws) ELSE ws
            /\ UNCHANGED <<supvars, envvars, rmvars, ctlvars, last_prices, feed, histvars,
                           entries>>

RECURSIVE InvokeCallbacksUntilRaise(_, _)
\* a loop over the callbacks that a raising callback ends
InvokeCallbacksUntilRaise(symbol, cbs) ==
    IF cbs = <<>> THEN <<>>
    ELSE <<[registered_for |-> symbol, callback |-> Head(cbs)]>>
         \o (IF Head(cbs).raises THEN <<>>
             ELSE InvokeCallbacksUntilRaise(symbol, Tail(cbs)))

RECURSIVE InvokeCallbacks(_, _)
\* Lines 170-175: the callbacks of the list are called one after the other;
\* what one raises is caught inside the loop
InvokeCallbacks(symbol, cbs) ==
    IF cbs = <<>> THEN <<>>
    ELSE <<[registered_for |-> symbol, callback |-> Head(cbs)]>>
         \o InvokeCallbacks(symbol, Tail(cbs))

\* What a message leaves in call: the calls of callbacks it made, and whether
\* the message before it was not a ticker
MessageCall(m) ==
    [op |-> "message",
     kind |-> m.kind,
     outcome |-> _process_message(m),
     symbol |-> IF m.kind = "ticker" THEN m.s ELSE "none",
     price |-> IF m.kind = "ticker" THEN m.c ELSE Zero,
     invoked |-> IF m.kind = "ticker" /\ m.s \in DOMAIN ws.callbacks
                 THEN InvokeCallbacks(m.s, ws.callbacks[m.s])
                 ELSE <<>>,
     after_dropped |-> call.op = "message" /\ call.kind # "ticker"]

NextFeed ==
    \/ Start /\ call' = NoCall
    \/ Stop /\ call' = NoCall
    \/ stop_monitoring /\ call' = [op |-> "stop_monitoring"]
    \/ /\ start_monitoring
       /\ call' = [op |-> "start_monitoring",
                   failed |-> ws.retry_count >= max_retries]
    \/ \E s \in Symbols, cb \in OtherCallbacks :
          add_price_callback(s, cb) /\ call' = NoCall
    \/ \E ok \in BOOLEAN : WsConnect(ok) /\ call' = NoCall
    \/ WsWake /\ call' = NoCall
    \/ \E clean \in BOOLEAN : WsDrop(clean) /\ call' = NoCall
    \/ WsBreak /\ call' = NoCall
    \/ \E m \in Messages : Message(m) /\ call' = MessageCall(m)

SpecFeed == Init /\ [][NextFeed]_vars

----------------------------------------------------------------------------
(* SpecStop: an orchestrator that holds no position is started and stopped *)
(* while the stream connects, fails, delivers prices and drops             *)

NextStop ==
    \/ Start /\ UNCHANGED call
    \/ Stop /\ UNCHANGED call
    \/ StopReturn /\ UNCHANGED call
    \/ \E s \in Symbols : ControllerExit(s) /\ UNCHANGED call
    \/ TrailExit /\ UNCHANGED call
    \/ TrailingStops /\ UNCHANGED call
    \/ \E ok \in BOOLEAN : WsConnect(ok) /\ UNCHANGED call
    \/ WsWake /\ UNCHANGED call
    \/ \E clean \in BOOLEAN : WsDrop(clean) /\ UNCHANGED call
    \/ WsBreak /\ UNCHANGED call
    \/ \E m \in Messages : Message(m) /\ UNCHANGED call

SpecStop == Init /\ [][NextStop]_vars

----------------------------------------------------------------------------
(* SpecDaemon: TradingBotDaemon.  Its main thread runs start(), the thread  *)
(* of _monitor_health restarts the trader, the signal handler runs on the   *)
(* main thread between two of its steps.  The orchestrator of self.trader   *)
(* is the one of the variables above; it does not trade here.               *)

max_reconnect_attempts == 10
max_restarts == 5
ReconnectBase == 60
ReconnectCap == 1800

\* wait_time of line 264, computed from the count line 263 has just raised
wait_time(reconnect_attempts) ==
    LET w == ReconnectBase * (2 ^ reconnect_attempts)
    IN  IF w < ReconnectCap THEN w ELSE ReconnectCap

\* MultiPairTrader.is_running
is_running == running /\ ~ThreadsJoined

\* The process lives while a thread that is not a daemon thread does; the
\* thread of _monitor_health is a daemon thread
ProcessAlive == daemon.pc["main"] # "exited" \/ ~ThreadsJoined

\* Thread t is scheduled: the main thread not while the signal handler is
\* inside MultiPairTrader.stop, the monitor thread while the process lives
Runs(t) == IF t = "main" THEN daemon.handler # "stopping" ELSE ProcessAlive

TraderUnchanged ==
    UNCHANGED <<trail, stop_pc, envvars, rmvars, ctlvars, feedvars, histvars, entries>>

\* _try_reconnect from its while test to its sleep, or to its return of
\* False: into line 317 of start() or back into _monitor_health
_try_reconnect(d, t) ==
    IF d.reconnect_attempts < max_reconnect_attempts /\ d.running
    THEN [d EXCEPT !.reconnect_attempts = @ + 1,
                   !.wait_time = wait_time(d.reconnect_attempts + 1),
                   !.pc[t] = "reconnect_sleep"]
    ELSE IF t = "main"
         THEN [d EXCEPT !.running = FALSE, !.pc[t] = "exited"]
         ELSE [d EXCEPT !.pc[t] = "check"]

\* _initialize_trader returned True: start() goes on to start the monitor
\* thread and to its loop, _restart_trader returns into _monitor_health
Initialized(d, t) ==
    IF t = "main"
    THEN [d EXCEPT !.reconnect_attempts = 0,
                   !.pc = [main |-> "loop", monitor |-> "check"]]
    ELSE [d EXCEPT !.reconnect_attempts = 0, !.pc[t] = "check"]

\* TradingBotDaemon.start up to its call of _initialize_trader
DaemonStart ==
    /\ daemon.pc["main"] = "not_started"
    /\ daemon' = [daemon EXCEPT !.running = TRUE, !.pc["main"] = "init"]
    /\ TraderUnchanged

\* _initialize_trader, lines 139-154: the configuration is loaded and a new
\* MultiPairTrader is assigned to self.trader (ok), or an exception is raised
InitializeCreate(t, ok) ==
    /\ daemon.pc[t] = "init"
    /\ Runs(t)
    /\ IF ok
       THEN /\ daemon' = [daemon EXCEPT !.trader = "set", !.pc[t] = "created"]
            /\ active_positions' = NoPositions
            /\ daily_pnl' = Zero
            /\ daily_trades' = 0
            /\ session_start_balance' = balance
            /\ trade_history' = <<>>
            /\ running' = FALSE
            /\ in_position' = [s \in Symbols |-> FALSE]
            /\ entry_price' = [s \in Symbols |-> Zero]
            /\ amount' = [s \in Symbols |-> Zero]
            /\ pc' = [s \in Symbols |-> "not_started"]
            /\ pending' = [s \in Symbols |-> NoPending]
            /\ last_prices' = [s \in {} |-> Zero]
            /\ feed' = FeedIdle
            /\ ws' = WsNotStarted
            /\ trail' = "not_started"
            /\ stop_pc' = "idle"
            /\ UNCHANGED <<balance, risk_params, histvars, entries>>
       ELSE /\ daemon' = _try_reconnect(daemon, t)
            /\ TraderUnchanged

\* _initialize_trader, lines 156-191: no pair could be added and False is
\* returned, or the trader is started
InitializeStart(t, successful_pairs) ==
    /\ daemon.pc[t] = "created"
    /\ Runs(t)
    /\ IF successful_pairs
       THEN /\ trader_start
            /\ daemon' = Initialized(daemon, t)
       ELSE /\ daemon' = _try_reconnect(daemon, t)
            /\ TraderUnchanged

\* The sleep of line 269 is over
ReconnectWake(t) ==
    /\ daemon.pc[t] = "reconnect_sleep"
    /\ Runs(t)
    /\ daemon' = [daemon EXCEPT !.pc[t] = "init"]
    /\ TraderUnchanged

\* The loop of start(), lines 329-335: running read as false; the stop() of
\* line 335 then returns at once
MainLoopExit ==
    /\ daemon.pc["main"] = "loop"
    /\ Runs("main")
    /\ ~daemon.running
    /\ daemon' = [daemon EXCEPT !.pc["main"] = "exited"]
    /\ TraderUnchanged

\* One pass of _monitor_health with a trader that is not running, up to the
\* joins of MultiPairTrader.stop: _restart_trader calls it from stop() when
\* no restart is left, else itself
MonitorRestart ==
    /\ daemon.pc["monitor"] = "check"
    /\ Runs("monitor")
    /\ daemon.running
    /\ daemon.trader = "set"
    /\ ~is_running
    /\ trader_stop
    /\ daemon' = IF daemon.restart_count < max_restarts
                 THEN [daemon EXCEPT !.restart_count = @ + 1,
                                     !.pc["monitor"] = "stop_restart"]
                 ELSE [daemon EXCEPT !.running = FALSE,
                                     !.pc["monitor"] = "stop_final"]

\* MultiPairTrader.stop returned to the monitor thread: _restart_trader drops
\* the trader and sleeps; stop() raises on the join of its own thread, into
\* the handler of _monitor_health
MonitorStopJoined ==
    /\ daemon.pc["monitor"] \in {"stop_restart", "stop_final"}
    /\ Runs("monitor")
    /\ ThreadsJoined
    /\ stop_pc' = "returned"
    /\ daemon' = IF daemon.pc["monitor"] = "stop_restart"
                 THEN [daemon EXCEPT !.trader = "none",
                                     !.pc["monitor"] = "restart_sleep"]
                 ELSE [daemon EXCEPT !.pc["monitor"] = "check"]
    /\ UNCHANGED <<trail, envvars, rmvars, ctlvars, feedvars, histvars, entries>>

\* The sleep of line 245 is over: _try_reconnect
RestartWake ==
    /\ daemon.pc["monitor"] = "restart_sleep"
    /\ Runs("monitor")
    /\ daemon' = _try_reconnect(daemon, "monitor")
    /\ TraderUnchanged

\* The while test of _monitor_health read as false
MonitorExit ==
    /\ daemon.pc["monitor"] = "check"
    /\ Runs("monitor")
    /\ ~daemon.running
    /\ daemon' = [daemon EXCEPT !.pc["monitor"] = "done"]
    /\ TraderUnchanged

\* SIGINT or SIGTERM: _signal_handler runs stop() on the main thread, up to
\* the joins of MultiPairTrader.stop when there is a trader
Signal ==
    /\ daemon.handler = "none"
    /\ daemon.pc["main"] \notin {"not_started", "exited"}
    /\ IF daemon.running /\ daemon.trader = "set"
       THEN /\ trader_stop
            /\ daemon' = [daemon EXCEPT !.running = FALSE, !.handler = "stopping"]
       ELSE /\ daemon' = [daemon EXCEPT !.running = FALSE, !.handler = "returned"]
            /\ TraderUnchanged

\* MultiPairTrader.stop returned to the signal handler; the join of the
\* monitor thread gives up after its timeout
HandlerStopJoined ==
    /\ daemon.handler = "stopping"
    /\ ThreadsJoined
    /\ stop_pc' = "returned"
    /\ daemon' = [daemon EXCEPT !.handler = "returned"]
    /\ UNCHANGED <<trail, envvars, rmvars, ctlvars, feedvars, histvars, entries>>

\* The daemon, with an orchestrator that an owner of the trader may stop
NextDaemon ==
    \/ DaemonStart /\ UNCHANGED call
    \/ \E t \in Threads, ok \in BOOLEAN : InitializeCreate(t, ok) /\ UNCHANGED call
    \/ \E t \in Threads, ok \in BOOLEAN : InitializeStart(t, ok) /\ UNCHANGED call
    \/ \E t \in Threads : ReconnectWake(t) /\ UNCHANGED call
    \/ MainLoopExit /\ UNCHANGED call
    \/ MonitorRestart /\ UNCHANGED call
    \/ MonitorStopJoined /\ UNCHANGED call
    \/ RestartWake /\ UNCHANGED call
    \/ MonitorExit /\ UNCHANGED call
    \/ Signal /\ UNCHANGED call
    \/ HandlerStopJoined /\ UNCHANGED call
    \/ Stop /\ UNCHANGED call
    \/ StopReturn /\ UNCHANGED call
    \/ \E s \in Symbols : ControllerExit(s) /\ UNCHANGED call
    \/ TrailExit /\ UNCHANGED call

SpecDaemon == Init /\ [][NextDaemon]_vars

----------------------------------------------------------------------------
(* SpecCycle: the controller threads pass by pass, while the stream has not *)
(* connected yet, so that only the periodic cycle trades.  call holds what  *)
(* the step just taken was given and what it decided.                       *)

CycleCandlePrices == {I(100), I(96)}

\* What an order leaves in call
OrderCall(op, s, filled) == [op |-> op, symbol |-> s, filled |-> filled]

\* What the gateway can return to controller s for the order it waits for:
\* nothing, an order at the price of the pass, the order of the simulation
GatewayOrders(s) == {NoOrder, Order(pending[s].price), SimulationOrder}

\* What a pass that ended in the handler of `except Exception` leaves in call
RaisedCall(s) ==
    [op |-> "cycle", symbol |-> s, data |-> "candles",
     outcome |-> "raised", exit_due |-> FALSE]

NextCycle ==
    \/ Start /\ call' = NoCall
    \/ Stop /\ call' = NoCall
    \/ \E s \in Symbols : ControllerExit(s) /\ call' = NoCall
    \/ \E s \in Symbols, d \in FetchResults, p \in CycleCandlePrices :
          \E b, l \in Signals(d) :
             /\ pc[s] = "idle"
             /\ \E r \in {_run_trading_pair(s, d, b, l, p)} :
                   Pass(s, r) /\ call' = CycleCall(s, d, r.outcome, p)
    \/ \E s \in Symbols :
          /\ pc[s] = "buy"
          /\ \E o \in GatewayOrders(s) :
                BuyOrderAt(s, o) /\ call' = OrderCall("buy_order", s, o.filled)
    \/ \E s \in Symbols :
          /\ pc[s] = "sell"
          /\ \E o \in GatewayOrders(s) :
                SellOrderAt(s, o) /\ call' = OrderCall("sell_order", s, o.filled)
    \/ \E s \in Symbols :
          Sold(s) /\ call' = IF ExitCheck(s) = "raised" THEN RaisedCall(s) ELSE NoCall
    \/ \E s \in Symbols :
          /\ Popped(s)
          /\ call' = IF ExitPop(s, pending[s].price).kind = "raised"
                     THEN RaisedCall(s) ELSE NoCall
    \/ \E s \in Symbols : Booked(s) /\ call' = NoCall

SpecCycle == Init /\ [][NextCycle]_vars

----------------------------------------------------------------------------
(* Properties of the RiskManager methods                                   *)

\* C5: validate_trade leaves active_positions, daily_pnl, daily_trades and
\* trade_history as they were, and a call that repeats the arguments of the
\* call right before it, with nothing in between, returns the same decision
\* and the same reason.
ValidateTradeIsPure ==
    [][call'.op = "validate_trade" =>
          /\ UNCHANGED rmvars
          /\ call'.again => /\ call'.result.ok = call'.previous.ok
                            /\ call'.result.reason = call'.previous.reason]_vars

\* a repeated validate_trade that approved a trade while a position was open
ValidateTradeRepeated ==
    /\ call.op = "validate_trade"
    /\ call.again
    /\ call.result.ok
    /\ active_positions # NoPositions

\* The five conditions of the validation contract for the arguments of the
\* last validate_trade call, each TRUE when the trade fails it
FailsBalance ==
    RGt(RMul(call.args[3], call.args[2]), RMul(balance, Pct(95)))
FailsConcurrent ==
    Cardinality(DOMAIN active_positions) >= risk_params.max_concurrent_trades
ProposedRisk ==
    RMul(RAbs(RSub(call.args[2], call.args[4])), call.args[3])
FailsTradeRisk ==
    RGt(RDiv(ProposedRisk, balance), risk_params.max_risk_per_trade)
OpenRisk ==
    SumOver(active_positions, DOMAIN active_positions, "risk_amount")
FailsPortfolioRisk ==
    RGt(RDiv(RAdd(OpenRisk, ProposedRisk), balance), risk_params.max_portfolio_risk)
FailsDailyLoss ==
    /\ RLt(daily_pnl, Zero)
    /\ RGe(RDiv(RAbs(daily_pnl), session_start_balance), risk_params.max_daily_loss)

FirstFailure ==
    IF FailsBalance THEN "insufficient_balance"
    ELSE IF FailsConcurrent THEN "max_concurrent_trades"
    ELSE IF FailsTradeRisk THEN "risk_per_trade"
    ELSE IF FailsPortfolioRisk THEN "portfolio_risk"
    ELSE IF FailsDailyLoss THEN "daily_loss"
    ELSE "approved"

\* C6: the rejection validate_trade returns is that of the first failing
\* check in the order balance, concurrent-trade cap, per-trade risk,
\* portfolio risk, daily loss; it approves exactly when none fails.
ValidateTradeCheckOrder ==
    call.op = "validate_trade" =>
        /\ call.result.reason = FirstFailure
        /\ call.result.ok <=> ~(FailsBalance \/ FailsConcurrent \/ FailsTradeRisk
                                \/ FailsPortfolioRisk \/ FailsDailyLoss)

\* a rejected trade that fails the balance check, the cap and the per-trade risk
SeveralChecksFail ==
    /\ call.op = "validate_trade"
    /\ FailsBalance /\ FailsConcurrent /\ FailsTradeRisk
    /\ call.result.reason = "insufficient_balance"

\* price * (1 - trailing_stop_distance)
ProposedStop(price) == RMul(price, RSub(One, risk_params.trailing_stop_distance))

\* C7: an update_trailing_stops call never lowers the stop of an open
\* position; it changes a stop only when price * (1 - distance) is strictly
\* above it, and then to exactly that value, which it does whenever trailing
\* stops are enabled; otherwise the stop stays.
TrailingStopMonotonic ==
    [][call'.op = "update_trailing_stops" =>
          \A s \in DOMAIN active_positions :
             LET prices == call'.args[1]
                 old == active_positions[s].stop_loss
                 new == active_positions'[s].stop_loss
             IN  /\ s \in DOMAIN active_positions'
                 /\ RGe(new, old)
                 /\ IF /\ risk_params.trailing_stop_enabled
                       /\ s \in DOMAIN prices
                       /\ RGt(ProposedStop(prices[s]), old)
                    THEN new = ProposedStop(prices[s])
                    ELSE new = old]_vars

\* a stop that a rising price had raised, left alone by a later lower price
TrailedStopHeld ==
    /\ call.op = "update_trailing_stops"
    /\ \E s \in DOMAIN active_positions \cap DOMAIN call.args[1] :
          LET p == active_positions[s]
          IN  /\ RLt(ProposedStop(call.args[1][s]), p.stop_loss)
              /\ RGt(p.stop_loss,
                     calculate_stop_loss_take_profit(s, p.entry_price, TRUE).stop_loss)

\* C10: should_exit_position is true exactly when the symbol has an open
\* position and the price is at or below its stop_loss or at or above its
\* take_profit; it is false for a symbol without an open position.
ShouldExitBoundaries ==
    call.op = "should_exit_position" =>
        LET s == call.args[1]
            price == call.args[2]
        IN  call.result.exit <=>
               /\ s \in DOMAIN active_positions
               /\ \/ RLe(price, active_positions[s].stop_loss)
                  \/ RGe(price, active_positions[s].take_profit)

\* should_exit_position asked at a price equal to the stop
ExitAtStopExactly ==
    /\ call.op = "should_exit_position"
    /\ call.args[1] \in DOMAIN active_positions
    /\ call.args[2] = active_positions[call.args[1]].stop_loss
    /\ call.result.exit

----------------------------------------------------------------------------
(* Properties of calculate_position_size                                   *)

SizingPrecondition ==
    /\ call.op = "calculate_position_size"
    /\ RGt(balance, Zero)
    /\ RGt(call.args[2], Zero)
    /\ call.args[3] # call.args[2]
    /\ RGe(call.args[4], Zero) /\ RLe(call.args[4], One)

RiskBasedSize ==
    (SizingPrecondition /\ risk_params.position_size_type = "risk_based"
       /\ call.args[4] = One) =>
        LET entry == call.args[2]
            stop == call.args[3]
            dist == RAbs(RSub(entry, stop))
            byRisk == RDiv(RMul(balance, risk_params.max_risk_per_trade), dist)
            byValue == RDiv(RMul(Pct(10), balance), entry)
            byRiskCeiling == RDiv(RMul(Pct(5), balance), dist)
            size == call.result.size
            by == call.result.limited_by
        IN  /\ size = RMin(byRisk, RMin(byValue, byRiskCeiling))
            /\ IF RLt(size, byRisk)
               THEN \/ by = "max_position_value_10_percent" /\ size = byValue
                    \/ by = "max_risk_5_percent" /\ size = byRiskCeiling
               ELSE by = "none"
            /\ (/\ balance = I(10000) /\ entry = I(100) /\ stop = I(98)
                /\ risk_params.max_risk_per_trade = Pct(1))
               => (size = I(10) /\ by = "max_position_value_10_percent")

\* the scenario of the specification: 10000, 100, 98, 1%
RiskBasedScenario ==
    /\ SizingPrecondition
    /\ risk_params.position_size_type = "risk_based"
    /\ risk_params.max_risk_per_trade = Pct(1)
    /\ balance = I(10000)
    /\ call.args = <<"BTC/USDT", I(100), I(98), One>>
    /\ call.result.size = I(10)

----------------------------------------------------------------------------
(* Properties of the orchestrator                                          *)

\* C1: the number of entries of active_positions never exceeds
\* max_concurrent_trades.
ConcurrentTradeCap ==
    Cardinality(DOMAIN active_positions) <= risk_params.max_concurrent_trades

\* C2: with the balance constant, right after every register_trade_entry the
\* risk_amount of the open positions, the new one included, is at most
\* max_portfolio_risk of the balance.
PortfolioRiskBudget ==
    [][daily_trades' # daily_trades =>
          RLe(RDiv(SumOver(active_positions', DOMAIN active_positions', "risk_amount"),
                   balance),
              risk_params.max_portfolio_risk)]_vars

\* C3: while a controller is between its validate_trade and its
\* register_trade_entry, no other controller is between its own, and no
\* register_trade_entry, register_trade_exit or update_trailing_stops of
\* another thread takes effect.
RiskManagerMutualExclusion ==
    [][\A s \in Symbols :
          (pc[s] = "buy" /\ pc'[s] = "buy") =>
              /\ UNCHANGED rmvars
              /\ \A t \in Symbols \ {s} : pc'[t] = "buy" => pc[t] = "buy"]_vars

\* C4: no buy order is submitted for a symbol between a filled buy order
\* and the next filled sell order of that symbol.
NoBuyWhileInPosition ==
    [][\A s \in Symbols :
          (pc[s] = "buy" /\ pc'[s] # "buy") => ~holding[s]]_vars

----------------------------------------------------------------------------
(* Properties of the periodic cycle, checked on SpecCycle                  *)

\* C11: a periodic pass that runs execute_strategy while the controller is in
\* position, at a price for which should_exit_position is true, ends with a
\* sell order submitted, whether or not the strategy signals sell.
PeriodicExitOnRisk ==
    (call.op = "cycle" /\ call.exit_due) => pc[call.symbol] = "sell"

\* C13: an order the exchange did not take changes nothing.  After a failed
\* buy the controller is not in position, nothing was registered and the
\* pass is over; after a failed sell the controller is still in position,
\* the position is still open, daily_pnl and trade_history are as they
\* were, and the pass is over.
FailedOrderChangesNothing ==
    [][\A s \in Symbols :
         /\ (pc[s] = "buy" /\ call'.op = "buy_order" /\ call'.symbol = s
                /\ ~call'.filled)
               => /\ pc'[s] = "idle"
                  /\ ~in_position'[s]
                  /\ UNCHANGED <<rmvars, entries, in_position>>
         /\ (pc[s] = "sell" /\ call'.op = "sell_order" /\ call'.symbol = s
                /\ ~call'.filled)
               => /\ pc'[s] = "idle"
                  /\ in_position'[s]
                  /\ s \in DOMAIN active_positions'
                  /\ UNCHANGED <<rmvars, in_position>>]_vars

\* a sell order failed and the position is still open and held
FailedSellKeepsPosition ==
    /\ call.op = "sell_order"
    /\ ~call.filled
    /\ pc[call.symbol] = "idle"
    /\ in_position[call.symbol]
    /\ call.symbol \in DOMAIN active_positions

\* C14: a pass in which validate_trade rejects the entry submits no buy
\* order, leaves the controller out of position and leaves the open
\* positions, daily_pnl and trade_history as they were.
RejectedTradeChangesNothing ==
    [][\A s \in Symbols :
         (pc[s] = "idle" /\ call'.op = "cycle" /\ call'.symbol = s
            /\ call'.outcome = "rejected")
           => /\ pc'[s] = "idle"
              /\ ~in_position'[s]
              /\ UNCHANGED <<rmvars, in_position, histvars, entries>>]_vars

\* validate_trade rejected an entry while the other symbol holds the slot
TradeRejected ==
    /\ call.op = "cycle"
    /\ call.outcome = "rejected"
    /\ pc[call.symbol] = "idle"
    /\ DOMAIN active_positions # {}

\* C15: a pass whose fetch returned no data does not invoke the strategy,
\* submits no order, changes neither the controller nor the RiskManager, and
\* leaves the thread at the top of its loop, where the next pass fetches
\* again while the running flag is set.
FailedFetchSkipsCycle ==
    [][\A s \in Symbols :
         (pc[s] = "idle" /\ call'.op = "cycle" /\ call'.symbol = s
            /\ call'.data = "none")
           => /\ call'.outcome = "no_data"
              /\ pc'[s] = "idle"
              /\ UNCHANGED <<rmvars, ctlvars, histvars, entries>>]_vars

\* the fetch failed in a pass of a controller that holds a position
FetchFailedInPosition ==
    /\ call.op = "cycle"
    /\ call.data = "none"
    /\ running
    /\ in_position[call.symbol]
    /\ pc[call.symbol] = "idle"

\* C16: an exception raised in a pass of one controller ends in that
\* controller's own handler: the thread is back at the top of its loop, the
\* other controllers' threads and in_position flags are as they were, and a
\* controller thread leaves its loop only when the running flag is cleared.
ExceptionsStayInController ==
    [][\A s \in Symbols :
         /\ (pc[s] \in {"idle", "sold", "pop"} /\ call'.op = "cycle"
                /\ call'.symbol = s /\ call'.outcome = "raised")
               => /\ pc'[s] = "idle"
                  /\ running' = running
                  /\ \A t \in Symbols \ {s} :
                        pc'[t] = pc[t] /\ in_position'[t] = in_position[t]
         /\ (pc[s] # "done" /\ pc'[s] = "done") => ~running]_vars

\* a pass raised while the sibling controller holds a position
RaisedBesideOpenPosition ==
    /\ call.op = "cycle"
    /\ call.outcome = "raised"
    /\ running
    /\ pc[call.symbol] = "idle"
    /\ \E t \in Symbols \ {call.symbol} : in_position[t] /\ pc[t] = "sell"

----------------------------------------------------------------------------
(* Properties of the orchestrator, checked on Spec                         *)

\* The symbol whose ticker the step delivers, with a new price
Delivered(s) ==
    /\ s \in DOMAIN last_prices'
    /\ s \in DOMAIN last_prices => last_prices'[s] # last_prices[s]

\* C12: a ticker delivered for a symbol whose controller is in position, at a
\* price for which should_exit_position is true, makes the callback submit a
\* sell order, wherever the controller's thread is in its cycle.
FastPathExit ==
    [][\A s \in Symbols :
         (Delivered(s) /\ in_position[s]
            /\ should_exit_position(s, last_prices'[s]).exit)
           => feed' = [pc |-> "sell", symbol |-> s, price |-> last_prices'[s]]]_vars

\* the callback submitted a sell while the controller's own sell is in flight
FastPathDuringCycle ==
    /\ feed.pc = "sell"
    /\ pc[feed.symbol] = "sell"
    /\ last_prices[feed.symbol] = feed.price

\* the number of records trade_history holds for symbol s
RecordsOf(s) ==
    Cardinality({i \in 1..Len(trade_history) : trade_history[i].symbol = s})

\* C17: for each symbol, trade_history never holds more records than
\* register_trade_entry was called for that symbol.
ExitsFollowEntries ==
    \A s \in Symbols : RecordsOf(s) <= entries[s]

\* two sell orders were filled for one entry, and one exit was recorded
DoubleSellRecordedOnce ==
    \E s \in Symbols :
        /\ sells[s] >= 2
        /\ entries[s] = 1
        /\ RecordsOf(s) = 1
        /\ pc[s] = "idle"
        /\ feed.pc = "idle"

\* C18: trade_history only grows by appending, and daily_pnl is the sum of
\* the profit fields of its records.
TradeHistoryLedger ==
    [][/\ Len(trade_history') >= Len(trade_history)
       /\ SubSeq(trade_history', 1, Len(trade_history)) = trade_history
       /\ daily_pnl' = SumSeq(trade_history', "profit")]_vars

----------------------------------------------------------------------------
(* Properties of the feed, checked on SpecFeed                             *)

\* The configured number of consecutive connection attempts have failed
ConsecutiveFailuresReached ==
    /\ ws.running
    /\ ws.retry_count >= max_retries
    /\ ws.pc # "connect"

\* C19: once the configured number of consecutive attempts have failed, the
\* feed is polling the exchange ticker and goes on invoking the callbacks.
FeedPollsAfterFailures ==
    ConsecutiveFailuresReached => ws.pc = "polling"

\* C20: while monitoring is on, the feed thread stays in its connection loop,
\* so that a further connection attempt is always ahead and the feed can
\* return to streaming without being restarted.
FeedKeepsProbing ==
    ws.running => ws.pc # "ended"

----------------------------------------------------------------------------
(* Properties of Kelly sizing, checked on SpecSizing                       *)

\* C29: with Kelly sizing and an empty trade history the size before the
\* confidence factor and the ceilings is balance * 0.01 / entry price,
\* whatever the stop and max_risk_per_trade are.
KellyEmptyHistoryFixedAllocation ==
    (SizingPrecondition /\ risk_params.position_size_type = "kelly_criterion"
       /\ trade_history = <<>>) =>
        BasePositionSize(balance, call.args[2], call.args[3], call.args[4])
          = RDiv(RMul(balance, Pct(1)), call.args[2])

----------------------------------------------------------------------------
(* Properties of the exit after a filled sell, checked on SpecCycle        *)

\* C30: once the gateway has returned a sell order, at any price, and the
\* thread that sold is through with it, the controller is out of position
\* and the symbol is no longer in active_positions.
FilledSellClosesPosition ==
    \A s \in Symbols :
        (pc[s] = "idle" /\ sells[s] >= 1 /\ ~holding[s])
          => (~in_position[s] /\ s \notin DOMAIN active_positions)

----------------------------------------------------------------------------
(* Properties of the feed's restart, waits, callbacks and messages,        *)
(* checked on SpecFeed                                                     *)

\* The connection loop has ended at its attempt ceiling
Failed(w) == w.pc = "ended" /\ w.retry_count >= max_retries

\* The flags of the feed and the position of its loop
Connection(w) == <<w.pc, w.retry_count, w.running, w.connected>>

BackoffDoubles ==
    (ws.pc = "sleep" /\ ws.last_wait > 0) => ws.wait = 2 * ws.last_wait

----------------------------------------------------------------------------
(* Properties of MultiPairTrader.stop, checked on SpecStop                 *)

\* C25: once MultiPairTrader.stop has returned, the running flag is clear
\* and no controller loop, trailing-stop loop or feed loop is still
\* executing.
StopLeavesNothingRunning ==
    stop_pc = "returned" =>
        /\ ~running
        /\ \A s \in Symbols : pc[s] = "done"
        /\ trail = "done"
        /\ ws.pc = "ended"
        /\ feed.pc = "idle"

\* once MultiPairTrader.stop has returned, the threads it joins without a
\* timeout are over
StopJoinsControllers ==
    stop_pc = "returned" =>
        /\ ~running
        /\ \A s \in Symbols : pc[s] = "done"
        /\ trail = "done"

----------------------------------------------------------------------------
(* Properties of the daemon, checked on SpecDaemon                         *)

\* C26: once the reconnection attempts are used up without a trader, the
\* daemon is not running any more: it does not go on without a trader.
SupervisorStopsWhenExhausted ==
    (/\ daemon.pc["monitor"] = "check"
     /\ daemon.reconnect_attempts >= max_reconnect_attempts
     /\ daemon.trader = "none") => ~daemon.running

\* the delay before restart attempt n of the claim, n counted from 0
DelayBeforeAttempt(n) ==
    LET w == 60 * (2 ^ n) IN IF w < 1800 THEN w ELSE 1800

\* C27: the wait before restart attempt n, n = 0 for the first attempt since
\* the last successful initialization, is min(60 * 2^n, 1800) seconds.
ReconnectDelayFromZero ==
    \A t \in Threads :
       daemon.pc[t] = "reconnect_sleep" =>
          daemon.wait_time = DelayBeforeAttempt(daemon.reconnect_attempts - 1)

\* C28: when the signal handler has returned and the main thread has left
\* start(), the daemon's flag and the flag of its trader are clear, so that
\* no controller thread goes on trading.
SignalStopsTrader ==
    (daemon.handler = "returned" /\ daemon.pc["main"] = "exited") =>
        (~daemon.running /\ ~running)

----------------------------------------------------------------------------
(* Properties of the controller's view of its position                     *)

\* No buy or sell of symbol s is in progress in any thread
Quiescent(s) ==
    /\ pc[s] \in {"not_started", "idle", "done"}
    /\ feed.pc = "idle" \/ feed.symbol # s

\* C33: whenever no buy or sell of a symbol is in progress, the controller's
\* in_position flag is set if and only if the symbol is in active_positions.
PositionFlagAgrees ==
    \A s \in Symbols :
       Quiescent(s) => (in_position[s] <=> s \in DOMAIN active_positions)

\* C32: between the buy of a position and its close, at most one sell order
\* is filled for it, whichever of the controller thread and the feed thread
\* submits it.
OneSellPerPosition ==
    \A s \in Symbols : sells[s] <= 1

----------------------------------------------------------------------------
(* Properties of the TradeRisk of an approved trade and of the stops       *)

\* C34: the TradeRisk of an approving validate_trade carries the stop-loss
\* that was passed, and its risk_amount is |entry_price - stop_loss| *
\* position_size for that stop-loss.
ApprovedTradeKeepsPassedStop ==
    (call.op = "validate_trade" /\ call.result.ok) =>
        LET t == call.result.trade_risk
        IN  /\ t.stop_loss = call.args[4]
            /\ t.risk_amount =
                  RMul(RAbs(RSub(t.entry_price, t.stop_loss)), t.position_size)

\* C35: the stop-loss of every open position is below its take-profit.
StopBelowTarget ==
    \A s \in DOMAIN active_positions :
       RLt(active_positions[s].stop_loss, active_positions[s].take_profit)

\* C36: the periodic cycle is paused for the daily-loss limit only when the
\* session P&L is a loss, and exactly when validate_trade would reject a
\* trade for the daily loss.
PauseOnlyOnDailyLoss ==
    DailyLossPause <=>
        (/\ RLt(daily_pnl, Zero)
         /\ RGe(RDiv(RAbs(daily_pnl), session_start_balance),
                risk_params.max_daily_loss))

----------------------------------------------------------------------------
(* Properties of the feed's connected flag and of raising callbacks        *)

\* C37: the feed's connected flag is set only while a stream connection is
\* open.
ConnectedOnlyWhileOpen ==
    ws.connected => ws.pc = "streaming"

----------------------------------------------------------------------------
(* Frame of update_trailing_stops and of register_trade_exit               *)

\* C38: update_trailing_stops changes nothing but the stop_loss of open
\* positions whose symbol is in the price map; it adds and removes no
\* position, and changes nothing when trailing stops are disabled.
UpdateTrailingStopsFrame ==
    [][call'.op = "update_trailing_stops" =>
          /\ DOMAIN active_positions' = DOMAIN active_positions
          /\ \A s \in DOMAIN active_positions :
                /\ [active_positions'[s] EXCEPT !.stop_loss = active_positions[s].stop_loss]
                      = active_positions[s]
                /\ s \notin DOMAIN call'.args[1] =>
                      active_positions'[s] = active_positions[s]
          /\ ~risk_params.trailing_stop_enabled => active_positions' = active_positions
          /\ UNCHANGED <<daily_pnl, daily_trades, trade_history, envvars>>]_vars

\* of two open positions, the call raised the stop of the one it was given a
\* price for
OneOfTwoStopsTrailed ==
    /\ call.op = "update_trailing_stops"
    /\ \E s \in DOMAIN active_positions \cap DOMAIN call.args[1] :
          /\ active_positions[s].stop_loss = ProposedStop(call.args[1][s])
          /\ \E u \in DOMAIN active_positions \ DOMAIN call.args[1] :
                active_positions[u].stop_loss =
                   calculate_stop_loss_take_profit(u, active_positions[u].entry_price,
                                                   TRUE).stop_loss

\* trailing stops are disabled and the call was given the price of an open
\* position that would have raised its stop
TrailingDisabledCall ==
    /\ call.op = "update_trailing_stops"
    /\ ~risk_params.trailing_stop_enabled
    /\ \E s \in DOMAIN active_positions \cap DOMAIN call.args[1] :
          RGt(ProposedStop(call.args[1][s]), active_positions[s].stop_loss)

\* C39: register_trade_exit for a symbol with an open position removes
\* exactly that symbol and appends exactly one record; for a symbol without
\* one it changes nothing.
RegisterTradeExitFrame ==
    [][call'.op = "register_trade_exit" =>
          LET symbol == call'.args[1]
          IN  IF symbol \in DOMAIN active_positions
              THEN /\ DOMAIN active_positions' = DOMAIN active_positions \ {symbol}
                   /\ \A s \in DOMAIN active_positions' :
                         active_positions'[s] = active_positions[s]
                   /\ Len(trade_history') = Len(trade_history) + 1
                   /\ SubSeq(trade_history', 1, Len(trade_history)) = trade_history
                   /\ trade_history'[Len(trade_history')].symbol = symbol
              ELSE UNCHANGED rmvars]_vars

----------------------------------------------------------------------------
(* SpecRestart: the daemon of SpecDaemon with an orchestrator whose         *)
(* controller threads buy, so that _restart_trader finds a position open.  *)
(* The stream has not connected, the price stays at the entry price and    *)
(* the strategy gives no sell signal: no position is closed.               *)

NextRestart ==
    \/ DaemonStart /\ UNCHANGED call
    \/ \E t \in Threads, ok \in BOOLEAN : InitializeCreate(t, ok) /\ UNCHANGED call
    \/ \E t \in Threads, ok \in BOOLEAN : InitializeStart(t, ok) /\ UNCHANGED call
    \/ \E t \in Threads : ReconnectWake(t) /\ UNCHANGED call
    \/ MainLoopExit /\ UNCHANGED call
    \/ MonitorRestart /\ UNCHANGED call
    \/ MonitorStopJoined /\ UNCHANGED call
    \/ RestartWake /\ UNCHANGED call
    \/ MonitorExit /\ UNCHANGED call
    \/ Signal /\ UNCHANGED call
    \/ HandlerStopJoined /\ UNCHANGED call
    \/ Stop /\ UNCHANGED call
    \/ StopReturn /\ UNCHANGED call
    \/ \E s \in Symbols : ControllerExit(s) /\ UNCHANGED call
    \/ TrailExit /\ UNCHANGED call
    \/ \E s \in Symbols, d \in FetchResults, p \in CandlePrices :
          \E b \in Signals(d) : Cycle(s, d, b, FALSE, p) /\ UNCHANGED call
    \/ \E s \in Symbols, f \in BOOLEAN :
          /\ f => entries[s] < MaxEntries
          /\ BuyOrder(s, f) /\ UNCHANGED call

SpecRestart == Init /\ [][NextRestart]_vars

\* C31: after _restart_trader has replaced the orchestrator, a symbol whose
\* buy was filled and not sold since is still treated as open: while no order
\* of the symbol is in progress its controller has in_position set and the
\* RiskManager holds it in active_positions.
RestartKeepsOpenPositions ==
    \A s \in Symbols :
       (daemon.trader = "set" /\ Quiescent(s) /\ holding[s])
          => (in_position[s] /\ s \in DOMAIN active_positions)

====
